---- MODULE Spec2Model ----
(***************************************************************************)
(* A model of src/plotter.py (class DOSPlotter, Python 2 / numpy).         *)
(*                                                                         *)
(* Python lists and numpy arrays are functions on 0..n-1, so the indices   *)
(* of the model are the indices of the source.  A float is an exact        *)
(* rational <<n, d>> (d > 0, lowest terms); the numeric tokens of a file   *)
(* are integers counting tenths, so 5.0 is 50 and 7.2 is 72.  Rounding of  *)
(* IEEE doubles is not modelled.  A field that holds None or a dict/list   *)
(* holds None or a record: elems is [dict |-> ...], projs is [list |-> ...],*)
(* an axis limit is [lo |-> ..., hi |-> ...].                              *)
(***************************************************************************)
EXTENDS Integers, Sequences, FiniteSets, TLC

VARIABLES self, disk, call, ret, ax

vars == <<self, disk, call, ret, ax>>

None == [tag |-> "None"]

-----------------------------------------------------------------------------
(* Arithmetic of floats, as exact rationals.                               *)

Abs(x) == IF x < 0 THEN -x ELSE x

RECURSIVE GCD(_, _)
GCD(a, b) == IF b = 0 THEN a ELSE GCD(b, a % b)

Frac(n, d) ==
    LET g == GCD(Abs(n), Abs(d))
        sgn == IF d < 0 THEN -1 ELSE 1
    IN  <<sgn * (n \div g), sgn * (d \div g)>>

Float(tok) == <<tok, 1>>

FAdd(x, y) == Frac(x[1] * y[2] + y[1] * x[2], x[2] * y[2])

FSub(x, y) == Frac(x[1] * y[2] - y[1] * x[2], x[2] * y[2])

FMul(x, y) == Frac(x[1] * y[1], x[2] * y[2])

FDiv(x, y) == Frac(x[1] * y[2], x[2] * y[1])

FLess(x, y) == x[1] * y[2] < y[1] * x[2]

FLeq(x, y) == x[1] * y[2] <= y[1] * x[2]

-----------------------------------------------------------------------------
(* Python lists.                                                           *)

PyLen(l) == Cardinality(DOMAIN l)

List(seq) == [i \in 0..(Len(seq) - 1) |-> seq[i + 1]]

\* l[a:b] for 0 <= a
Slice(l, a, b) ==
    LET hi == IF b < PyLen(l) THEN b ELSE PyLen(l)
    IN  [i \in 0..(hi - a - 1) |-> l[a + i]]

\* l[a:]
SliceFrom(l, a) == Slice(l, a, PyLen(l))

\* range(a, b), as the sequence of the values in loop order
PyRange(a, b) == [k \in 1..(IF b > a THEN b - a ELSE 0) |-> a + k - 1]

\* np.zeros(n)
Zeros(n) == [i \in 0..(n - 1) |-> Float(0)]

-----------------------------------------------------------------------------
(* __init__                                                                *)

InitSelf ==
    [spin |-> FALSE, bins |-> None, tdict |-> None, pdict |-> None,
     natoms |-> None, _natoms |-> None, elems |-> None, projs |-> None]

NoAxes == [xlim |-> None, ylim |-> None, lines |-> <<>>]

Returned(v) == [exc |-> "none", value |-> v]

Raised(e) == [exc |-> e, value |-> None]

-----------------------------------------------------------------------------
(* read_tdos                                                               *)

\* (a reader that keeps the two spin channels alone)
TdosNcolChannels(row) == IF PyLen(row) - 1 = 4 THEN 2 ELSE PyLen(row) - 1

\* ncol = len(_tdos[0].strip().split()) - 1
TdosNcol(row) == PyLen(row) - 1

\* (a reader that shifts the wrong way round)
ShiftReversed(raw, fermi) == FSub(Float(fermi), Float(raw))

\* en[i] = t[0] - fermi
Shift(raw, fermi) == FSub(Float(raw), Float(fermi))

\* tdos[i][col] = t[col+1]/float(self.natoms)
TdosCell(t, col, natoms) == FDiv(Float(t[col + 1]), Float(natoms))

ReadTdos(s, doscar) ==
    LET natoms == doscar[0][0]
        bins == doscar[5][2]
        fermi == doscar[5][3]
        _tdos == Slice(doscar, 6, bins + 6)
        ncol == TdosNcol(_tdos[0])
        en == [i \in 0..(bins - 1) |-> Shift(_tdos[i][0], fermi)]
        tdos == [i \in 0..(bins - 1) |->
                    [col \in 0..(ncol - 1) |-> TdosCell(_tdos[i], col, natoms)]]
    IN  [s EXCEPT !.natoms = natoms,
                  !.bins = bins,
                  !.spin = IF ncol = 4 THEN TRUE ELSE @,
                  !.tdict = [en |-> en, tdos |-> tdos]]

-----------------------------------------------------------------------------
(* read_pdos                                                               *)

\* ncol = len(_pdos[1].strip().split()) - 1
PdosNcol(_pdos) == PyLen(_pdos[1]) - 1

\* (a reader that forgets the separator line of a segment)
SiteOfBins(i, bins) == i \div bins

\* site = i/(self.bins+1), the integer division of Python 2
SiteOf(i, bins) == i \div (bins + 1)

\* i%(self.bins+1) == 0: the separator line that opens a segment
IsSeparator(i, bins) == i % (bins + 1) = 0

\* The loop "for i, p in enumerate(_pdos)".  acc.pdos is the tensor,
\* acc.writes counts the assignments made to each cell.
RECURSIVE PdosLoop(_, _, _, _, _, _)
PdosLoop(_pdos, i, bins, ncol, nbin, acc) ==
    IF i >= PyLen(_pdos) THEN acc
    ELSE IF IsSeparator(i, bins) THEN PdosLoop(_pdos, i + 1, bins, ncol, 0, acc)
    ELSE LET site == SiteOf(i, bins)
             p == _pdos[i]
         IN  PdosLoop(_pdos, i + 1, bins, ncol, nbin + 1,
                 [pdos |-> [acc.pdos EXCEPT ![site][nbin] =
                               [col \in 0..(ncol - 1) |-> Float(p[col + 1])]],
                  writes |-> [acc.writes EXCEPT ![site][nbin] =
                               [col \in 0..(ncol - 1) |-> @[col] + 1]]])

ReadPdosRun(s, doscar) ==
    LET natoms == doscar[0][0]
        bins == doscar[5][2]
        fermi == doscar[5][3]
        ntdos == bins + 6
        _pdos == SliceFrom(doscar, ntdos)
        ncol == PdosNcol(_pdos)
        rows == Slice(_pdos, 1, bins + 1)
        en == [i \in 0..(bins - 1) |-> Shift(rows[i][0], fermi)]
        zeros == [site \in 0..(natoms - 1) |->
                    [b \in 0..(bins - 1) |-> [col \in 0..(ncol - 1) |-> Float(0)]]]
        count == [site \in 0..(natoms - 1) |->
                    [b \in 0..(bins - 1) |-> [col \in 0..(ncol - 1) |-> 0]]]
        done == PdosLoop(_pdos, 0, bins, ncol, 0, [pdos |-> zeros, writes |-> count])
    IN  [self |-> [s EXCEPT !.natoms = natoms,
                            !.bins = bins,
                            !.spin = IF ncol \in {2, 8, 18} THEN TRUE ELSE @,
                            !.pdict = [en |-> en, pdos |-> done.pdos]],
         writes |-> done.writes]

ReadPdos(s, doscar) == ReadPdosRun(s, doscar).self

-----------------------------------------------------------------------------
(* _calc_pdos_sum                                                          *)

\* (an aggregator that keeps the 1-based first site)
SiteIndicesOneBased(sites) == PyRange(sites[0], sites[1])

\* sites = range(sites[0]-1, sites[1])
SiteIndices(sites) == PyRange(sites[0] - 1, sites[1])

\* range(orbs[0]-1, orbs[1])
OrbIndices(orbs) == PyRange(orbs[0] - 1, orbs[1])

\* A numpy index i on an axis of length n: valid from -n to n-1, a negative
\* one counting from the end; -1 stands for IndexError.
NpIndex(i, n) ==
    IF 0 <= i /\ i < n THEN i
    ELSE IF -n <= i /\ i < 0 THEN i + n
    ELSE -1

\* return dos/float(self.natoms)
Normalize(v, natoms) == FDiv(v, Float(natoms))

\* dos += pdos[site,:,orb], with dos of length self.bins: the slice has the
\* length of the tensor's bin axis and is broadcast when that length is 1.
Broadcasts(dos, pdos, site) ==
    PyLen(pdos[site]) = PyLen(dos) \/ PyLen(pdos[site]) = 1

AddSlice(dos, pdos, site, orb) ==
    IF PyLen(pdos[site]) = PyLen(dos)
    THEN [i \in DOMAIN dos |-> FAdd(dos[i], pdos[site][i][orb])]
    ELSE [i \in DOMAIN dos |-> FAdd(dos[i], pdos[site][0][orb])]

RECURSIVE OrbLoop(_, _, _, _, _)
OrbLoop(pdos, site, orbs, k, st) ==
    IF st.exc # "none" \/ k > Len(orbs) THEN st
    ELSE LET si == NpIndex(site, PyLen(pdos))
             oi == IF si = -1 THEN -1
                   ELSE NpIndex(orbs[k], PyLen(pdos[si][0]))
         IN  IF si = -1 \/ oi = -1 THEN Raised("IndexError")
             ELSE IF ~Broadcasts(st.value, pdos, si) THEN Raised("ValueError")
             ELSE OrbLoop(pdos, site, orbs, k + 1,
                          Returned(AddSlice(st.value, pdos, si, oi)))

RECURSIVE SiteLoop(_, _, _, _, _)
SiteLoop(pdos, sites, orbs, k, st) ==
    IF st.exc # "none" \/ k > Len(sites) THEN st
    ELSE SiteLoop(pdos, sites, orbs, k + 1, OrbLoop(pdos, sites[k], orbs, 1, st))

\* proj = [elem, "a-b", "c-d", label, color]; a range token is carried as
\* the list of its two integer fields, what split('-') and int() make of it.
CalcPdosSum(s, pdos, proj) ==
    LET sites == SiteIndices(proj[1])
        orbs == OrbIndices(proj[2])
        st == SiteLoop(pdos, sites, orbs, 1, Returned(Zeros(s.bins)))
    IN  IF st.exc # "none" THEN st
        ELSE Returned([i \in DOMAIN st.value |-> Normalize(st.value[i], s.natoms)])

-----------------------------------------------------------------------------
(* _set_axes_limits and _set_ticklabels                                    *)

\* xlim = [-6.0, 6.0]
XMin == -60

XMax == 60

\* if ymax > 5.0: ymax = 5.0
YCap == 50

\* the factor 1.05 of ylim
Headroom == <<21, 20>>

\* (a window without its two ends)
InWindowOpen(e) == FLess(Float(XMin), e) /\ FLess(e, Float(XMax))

\* en[i] >= xlim[0] and en[i] <= xlim[1]
InWindow(e) == FLeq(Float(XMin), e) /\ FLeq(e, Float(XMax))

\* The loop "for i in range(self.bins)" over one curve, from ymax = 0
RECURSIVE YmaxLoop(_, _, _, _, _)
YmaxLoop(en, dos, i, bins, ymax) ==
    IF i >= bins THEN ymax
    ELSE YmaxLoop(en, dos, i + 1, bins,
             IF InWindow(en[i]) /\ FLess(ymax, dos[i]) THEN dos[i] ELSE ymax)

CapY(ymax) == IF FLess(Float(YCap), ymax) THEN Float(YCap) ELSE ymax

\* dos[:,c]
Column(dos, c) == [i \in DOMAIN dos |-> dos[i][c]]

SetAxesLimits(s, en, dos, a) ==
    LET ylim ==
            IF s.spin
            THEN LET up_ymax == CapY(YmaxLoop(en, Column(dos, 0), 0, s.bins, Float(0)))
                     down_ymax == CapY(YmaxLoop(en, Column(dos, 1), 0, s.bins, Float(0)))
                 IN  [lo |-> FMul(<<-21, 20>>, down_ymax), hi |-> FMul(Headroom, up_ymax)]
            ELSE LET ymax == CapY(YmaxLoop(en, dos, 0, s.bins, Float(0)))
                 IN  [lo |-> Float(0), hi |-> FMul(Headroom, ymax)]
    IN  [a EXCEPT !.xlim = [lo |-> Float(XMin), hi |-> Float(XMax)], !.ylim = ylim]

\* int(math.ceil(y)) of a value y counted in tenths
CeilInt(y) == -((-y[1]) \div (y[2] * 10))

\* yloc = range(ymin, ymax); ax.set_yticks(yloc)
\* (limits that no set_ylim fixed are matplotlib's autoscaled ones, left open)
SetTicklabels(a) ==
    [xlim |-> a.xlim, ylim |-> a.ylim, lines |-> a.lines,
     yticks |-> IF a.ylim = None THEN None
                ELSE PyRange(CeilInt(a.ylim.lo), CeilInt(a.ylim.hi))]

-----------------------------------------------------------------------------
(* read_poscar and read_params                                             *)

\* isinstance(elem, str), of a token that str.split() returned
IsInstanceStr(elem) == elem \in STRING

IntLiterals == [k \in {"0", "1", "2", "3", "4"} |->
                   CASE k = "0" -> 0 [] k = "1" -> 1 [] k = "2" -> 2
                     [] k = "3" -> 3 [] k = "4" -> 4]

\* int(n) raises ValueError on any other token
IsIntLiteral(tok) == tok \in DOMAIN IntLiterals

RECURSIVE SumList(_, _)
SumList(l, n) == IF n = 0 THEN 0 ELSE l[n - 1] + SumList(l, n - 1)

\* for elem, natom in zip(elems, natoms): for i in range(natom): ...
RECURSIVE Expand(_, _, _, _)
Expand(elems, natoms, k, table) ==
    IF k >= PyLen(elems) \/ k >= PyLen(natoms) THEN table
    ELSE LET index == Cardinality(DOMAIN table) + 1
         IN  Expand(elems, natoms, k + 1,
                 [j \in 1..(index - 1 + natoms[k]) |->
                     IF j < index THEN table[j] ELSE elems[k]])

ReadPoscar(s, pos) ==
    LET elems == pos[5]
        counts == pos[6]
    IN  IF ~ \A k \in DOMAIN elems : IsInstanceStr(elems[k])
        THEN [self |-> s, ret |-> Raised("VaspFormatError")]
        ELSE IF \E k \in DOMAIN counts : ~IsIntLiteral(counts[k])
        THEN [self |-> s, ret |-> Raised("ValueError")]
        ELSE LET natoms == [k \in DOMAIN counts |-> IntLiterals[counts[k]]]
             IN  [self |-> [s EXCEPT !._natoms = SumList(natoms, PyLen(natoms)),
                                     !.elems = [dict |-> Expand(elems, natoms, 0, <<>>)]],
                  ret |-> Returned(None)]

\* self.projs = [p.strip().split() for p in params]
ReadParams(s, params) ==
    [s EXCEPT !.projs = [list |-> [k \in DOMAIN params |-> params[k]]]]

-----------------------------------------------------------------------------
(* plot_pdos                                                               *)

\* ax.plot(en, y): x and y must have the same length
Plot(a, label, en, y) ==
    [a EXCEPT !.lines = Append(@, [label |-> label, x |-> en, y |-> y])]

\* for proj in projs: ...
RECURSIVE ProjLoop(_, _, _, _, _, _, _, _)
ProjLoop(s, en, pdos, projs, k, total, plotrange, st) ==
    IF st.ret.exc # "none" \/ k >= PyLen(projs) THEN st
    ELSE LET proj == projs[k]
             dos == CalcPdosSum(s, pdos, proj)
         IN  IF dos.exc # "none" THEN [ret |-> dos, ax |-> st.ax]
             ELSE IF PyLen(dos.value) # PyLen(en)
             THEN [ret |-> Raised("ValueError"), ax |-> st.ax]
             ELSE LET drawn == Plot(st.ax, <<proj[0], proj[3]>>, en, dos.value)
                      a == IF total \/ plotrange THEN drawn
                           ELSE SetAxesLimits(s, en, dos.value, drawn)
                  IN  ProjLoop(s, en, pdos, projs, k + 1, total, plotrange,
                               [ret |-> st.ret, ax |-> a])

\* Lines 339-379, once the tables are bound and self.spin is false
Draw(s, total, plotrange) ==
    LET tdos == s.tdict.tdos
        en == s.pdict.en
        pdos == s.pdict.pdos
    IN  IF total /\ PyLen(tdos) # PyLen(en) THEN [ret |-> Raised("ValueError"), ax |-> NoAxes]
        ELSE LET a0 == IF total THEN Plot(NoAxes, "total", en, Column(tdos, 0)) ELSE NoAxes
                 st == ProjLoop(s, en, pdos, s.projs.list, 0, total, plotrange,
                                [ret |-> Returned(None), ax |-> a0])
             IN  IF st.ret.exc # "none" THEN st
                 ELSE LET a1 == IF ~plotrange /\ total
                                THEN SetAxesLimits(s, en, Column(tdos, 0), st.ax)
                                ELSE st.ax
                      IN  [ret |-> Returned(None), ax |-> SetTicklabels(a1)]

\* if total: if self.tdict is None: self.read_tdos(fdos)
LoadTdos(s, dir, total) ==
    IF total /\ s.tdict = None THEN ReadTdos(s, dir.DOSCAR) ELSE s

\* if self.pdict is None: self.read_pdos(fdos)
LoadPdos(s, dir) == IF s.pdict = None THEN ReadPdos(s, dir.DOSCAR) ELSE s

\* if self.elems is None: self.read_poscar(fdos)
LoadPoscar(s, dir) ==
    IF s.elems = None THEN ReadPoscar(s, dir.POSCAR)
    ELSE [self |-> s, ret |-> Returned(None)]

\* if self.projs is None: self.read_params(fdos)
LoadParams(r, dir) ==
    IF r.ret.exc = "none" /\ r.self.projs = None
    THEN [self |-> ReadParams(r.self, dir.params), ret |-> r.ret]
    ELSE r

\* Lines 320-328: the tables a call loads
Loaded(s, dir, total) ==
    LoadParams(LoadPoscar(LoadPdos(LoadTdos(s, dir, total), dir), dir), dir)

\* Lines 329-379, on the object as the loads left it
Bound(ld, total, plotrange) ==
    IF ld.ret.exc # "none" THEN [self |-> ld.self, ret |-> ld.ret, ax |-> NoAxes]
    ELSE IF ld.self.tdict = None
    THEN [self |-> ld.self, ret |-> Raised("TypeError"), ax |-> NoAxes]
    ELSE IF ld.self.spin
    THEN [self |-> ld.self, ret |-> Raised("ImplementationError"), ax |-> NoAxes]
    ELSE [self |-> ld.self] @@ Draw(ld.self, total, plotrange)

PlotPdos(s, dir, total, plotrange) == Bound(Loaded(s, dir, total), total, plotrange)

-----------------------------------------------------------------------------
(* The files.  A file is the list of its lines, a line the list of its     *)
(* whitespace-separated tokens.                                            *)

MaxAtoms == 3

MaxBins == 2

MaxOrbs == 2

\* value columns of a total-DOS row: DOS alone; DOS and its integral;
\* up, down and their two integrals
TdosColumns == {1, 2, 4}

Fermis == {0, 7}

RECURSIVE Concat(_, _)
Concat(f, n) == IF n = 0 THEN <<>> ELSE Concat(f, n - 1) \o f[n]

\* A well-formed main data file of natoms atoms and bins bins, with nT value
\* columns in the total block and nP in the projected block.  Every value of
\* the projected block is distinct; row i has raw energy 10*(i+1).
MkDoscar(natoms, bins, nT, nP, fermi) ==
    LET header == <<List(<<natoms, natoms, 1, 0>>), List(<<0>>), List(<<0>>),
                    List(<<0>>), List(<<0>>)>>
        line5 == List(<<10 * bins, 10, bins, fermi, 10>>)
        trow(i) == List(<<10 * (i + 1)>> \o [c \in 1..nT |-> 3 * natoms * (i + c) + fermi])
        prow(s, b) == List(<<10 * (b + 1)>>
                           \o [o \in 1..nP |-> 1 + fermi + o + 5 * b + 5 * bins * s])
        segment(s) == <<line5>> \o [b \in 1..bins |-> prow(s - 1, b - 1)]
    IN  List(header \o <<line5>> \o [i \in 1..bins |-> trow(i - 1)]
             \o Concat([s \in 1..natoms |-> segment(s)], natoms))

\* A structure file: lines 5 and 6 are the ones read.
MkPoscar(elems, counts) ==
    List(<<List(<<"comment">>), List(<<"1.0">>), List(<<"a">>), List(<<"b">>),
           List(<<"c">>), List(elems), List(counts)>>)

MkProj(elem, a, b, c, d, label, color) ==
    List(<<elem, List(<<a, b>>), List(<<c, d>>), label, color>>)

WellFormedDisks ==
    { [d |-> [DOSCAR |-> MkDoscar(n, b, nT, nP, f),
              POSCAR |-> MkPoscar(<<"Fe">>, <<"1">>),
              params |-> List(<<MkProj("Fe", 1, 1, 1, 1, "s", "blue")>>)]] :
        n \in 1..MaxAtoms, b \in 1..MaxBins, nT \in TdosColumns,
        nP \in 1..MaxOrbs, f \in Fermis }

\* Four directories: A and B hold non-spin data, S spin-polarized data, V
\* the data of A beside a structure file of the older format (counts on
\* line 5, "Direct" on line 6).
Catalogue ==
    [d \in {"A", "B", "S", "V"} |->
        CASE d = "A" -> [DOSCAR |-> MkDoscar(2, 2, 2, 3, 0),
                         POSCAR |-> MkPoscar(<<"Fe", "O">>, <<"1", "1">>),
                         params |-> List(<<MkProj("Fe", 1, 1, 1, 3, "d", "blue"),
                                           MkProj("O", 2, 2, 1, 1, "s", "red")>>)]
          [] d = "B" -> [DOSCAR |-> MkDoscar(3, 2, 2, 3, 7),
                         POSCAR |-> MkPoscar(<<"Ni">>, <<"3">>),
                         params |-> List(<<MkProj("Ni", 1, 3, 1, 2, "p", "green")>>)]
          [] d = "S" -> [DOSCAR |-> MkDoscar(2, 2, 4, 2, 0),
                         POSCAR |-> MkPoscar(<<"Fe", "O">>, <<"1", "1">>),
                         params |-> List(<<MkProj("Fe", 1, 1, 1, 2, "d", "blue")>>)]
          [] d = "V" -> [DOSCAR |-> MkDoscar(2, 2, 2, 3, 0),
                         POSCAR |-> MkPoscar(<<"1", "1">>, <<"Direct">>),
                         params |-> List(<<MkProj("Fe", 1, 1, 1, 3, "d", "blue")>>)]]

\* Structure files, each named by its lines 5 and 6: symbols and counts as
\* the newer format has them, and lines with a token of another kind.
ElemTokens == {"Fe", "O", "2"}

CountTokens == {"2", "Direct"}

TokenLines(toks) == {<<a>> : a \in toks} \cup {<<a, b>> : a \in toks, b \in toks}

StructureFiles ==
    [f \in TokenLines(ElemTokens) \X TokenLines(CountTokens) |->
        [POSCAR |-> MkPoscar(f[1], f[2])]]

-----------------------------------------------------------------------------
(* The operations, as actions.  call records the operation and its         *)
(* arguments (for read_poscar also the element table and _natoms the call  *)
(* found), ret how it ended.  ax is the local ax of the call: the axes the *)
(* call drew on, NoAxes for a call that has none.                          *)

read_tdos(fdos) ==
    /\ self' = ReadTdos(self, disk[fdos].DOSCAR)
    /\ call' = [op |-> "read_tdos", fdos |-> fdos]
    /\ ret' = Returned(None)
    /\ ax' = NoAxes
    /\ UNCHANGED disk

read_pdos(fdos) ==
    LET run == ReadPdosRun(self, disk[fdos].DOSCAR)
    IN  /\ self' = run.self
        /\ call' = [op |-> "read_pdos", fdos |-> fdos]
        /\ ret' = [exc |-> "none", value |-> None, writes |-> run.writes]
        /\ ax' = NoAxes
        /\ UNCHANGED disk

read_poscar(fdos) ==
    LET run == ReadPoscar(self, disk[fdos].POSCAR)
    IN  /\ self' = run.self
        /\ call' = [op |-> "read_poscar", fdos |-> fdos,
                    before |-> [elems |-> self.elems, _natoms |-> self._natoms]]
        /\ ret' = run.ret
        /\ ax' = NoAxes
        /\ UNCHANGED disk

read_params(fdos) ==
    /\ self' = ReadParams(self, disk[fdos].params)
    /\ call' = [op |-> "read_params", fdos |-> fdos]
    /\ ret' = Returned(None)
    /\ ax' = NoAxes
    /\ UNCHANGED disk

\* self._calc_pdos_sum(self.pdict['pdos'], proj)
_calc_pdos_sum(proj) ==
    /\ self.pdict # None
    /\ call' = [op |-> "_calc_pdos_sum", proj |-> proj]
    /\ ret' = CalcPdosSum(self, self.pdict.pdos, proj)
    /\ ax' = NoAxes
    /\ UNCHANGED <<self, disk>>

_set_axes_limits(en, dos) ==
    /\ call' = [op |-> "_set_axes_limits", en |-> en, dos |-> dos]
    /\ ax' = SetAxesLimits(self, en, dos, NoAxes)
    /\ ret' = Returned(None)
    /\ UNCHANGED <<self, disk>>

plot_pdos(fdos, total, plotrange) ==
    LET run == PlotPdos(self, disk[fdos], total, plotrange)
    IN  /\ self' = run.self
        /\ ax' = run.ax
        /\ call' = [op |-> "plot_pdos", fdos |-> fdos, total |-> total,
                    plotrange |-> plotrange]
        /\ ret' = run.ret
        /\ UNCHANGED disk

-----------------------------------------------------------------------------
(* Spec: one DOSPlotter and one well-formed main data file; the readers    *)
(* and the aggregation of one projection.                                  *)

Init ==
    /\ self = InitSelf
    /\ disk \in WellFormedDisks
    /\ call = [op |-> "__init__"]
    /\ ret = Returned(None)
    /\ ax = NoAxes

\* The ranges a projection may name: every pair of endpoints from 0 to one
\* past the shape of the tensor that was read.
ProjInputs ==
    LET nsite == PyLen(self.pdict.pdos)
        norb == PyLen(self.pdict.pdos[0][0])
    IN  { MkProj("Fe", a, b, c, d, "s", "blue") :
            a \in 0..(nsite + 1), b \in 0..(nsite + 1),
            c \in 0..(norb + 1), d \in 0..(norb + 1) }

\* _calc_pdos_sum leaves the object as it is, so a run aggregates one
\* projection between two reads.
Next ==
    \/ \E fdos \in DOMAIN disk : read_tdos(fdos)
    \/ \E fdos \in DOMAIN disk : read_pdos(fdos)
    \/ /\ self.pdict # None
       /\ call.op # "_calc_pdos_sum"
       /\ \E proj \in ProjInputs : _calc_pdos_sum(proj)

Spec == Init /\ [][Next]_vars

-----------------------------------------------------------------------------
(* SpecAxes: _set_axes_limits on every small energy grid and curve.        *)

MaxAxisBins == 2

AxisEnergies == {-61, -60, 0, 60, 61}

AxisValues == {0, 30, 72}

InitAxes ==
    /\ \E bins \in 1..MaxAxisBins, spin \in BOOLEAN :
          self = [InitSelf EXCEPT !.bins = bins, !.spin = spin]
    /\ disk = <<>>
    /\ call = [op |-> "__init__"]
    /\ ret = Returned(None)
    /\ ax = NoAxes

Grids == [0..(self.bins - 1) -> {Float(e) : e \in AxisEnergies}]

Curves ==
    IF self.spin
    THEN [0..(self.bins - 1) -> [0..1 -> {Float(v) : v \in AxisValues}]]
    ELSE [0..(self.bins - 1) -> {Float(v) : v \in AxisValues}]

\* One call on each object: the result does not depend on earlier calls.
NextAxes ==
    /\ call.op = "__init__"
    /\ \E en \in Grids, dos \in Curves : _set_axes_limits(en, dos)

SpecAxes == InitAxes /\ [][NextAxes]_vars

-----------------------------------------------------------------------------
(* SpecSession: one DOSPlotter used on the directories of the catalogue.   *)

InitSession ==
    /\ self = InitSelf
    /\ disk = Catalogue
    /\ call = [op |-> "__init__"]
    /\ ret = Returned(None)
    /\ ax = NoAxes

NextSession ==
    \/ \E fdos \in DOMAIN disk : read_tdos(fdos)
    \/ \E fdos \in DOMAIN disk : read_pdos(fdos)
    \/ \E fdos \in DOMAIN disk : read_poscar(fdos)
    \/ \E fdos \in DOMAIN disk : read_params(fdos)
    \/ \E fdos \in DOMAIN disk, total \in BOOLEAN, plotrange \in BOOLEAN :
          plot_pdos(fdos, total, plotrange)

SpecSession == InitSession /\ [][NextSession]_vars

-----------------------------------------------------------------------------
(* SpecPoscar: read_poscar on the structure files.                         *)

InitPoscar ==
    /\ self = InitSelf
    /\ disk = StructureFiles
    /\ call = [op |-> "__init__"]
    /\ ret = Returned(None)
    /\ ax = NoAxes

NextPoscar == \E fpos \in DOMAIN disk : read_poscar(fpos)

SpecPoscar == InitPoscar /\ [][NextPoscar]_vars

-----------------------------------------------------------------------------
(* What the claims speak of, read off the file itself.                     *)

\* the main data file the last call named
TheDoscar == disk[call.fdos].DOSCAR

AtomCount(f) == f[0][0]

BinCount(f) == f[5][2]

\* value columns of the first total-DOS row, and of the first projected row
TotalColumns(f) == PyLen(f[6]) - 1

OrbitalCount(f) == PyLen(f[6 + BinCount(f) + 1]) - 1

\* the sum of tensor[site][i][orb] over a set of (site, orb) pairs
RECURSIVE PairSum(_, _, _)
PairSum(pdos, i, P) ==
    IF P = {} THEN Float(0)
    ELSE LET x == CHOOSE y \in P : TRUE
         IN  FAdd(pdos[x[1]][i][x[2]], PairSum(pdos, i, P \ {x}))

\* the endpoints a, b, c, d of the projection of a call of _calc_pdos_sum
ProjA == call.proj[1][0]

ProjB == call.proj[1][1]

ProjC == call.proj[2][0]

ProjD == call.proj[2][1]

SiteCount == PyLen(self.pdict.pdos)

OrbCount == PyLen(self.pdict.pdos[0][0])

RangesInside ==
    /\ 1 <= ProjA /\ ProjA <= ProjB /\ ProjB <= SiteCount
    /\ 1 <= ProjC /\ ProjC <= ProjD /\ ProjD <= OrbCount

\* C1: for site and orbital ranges a-b and c-d inside the tensor, a <= b and
\* c <= d, _calc_pdos_sum returns, at every bin, the sum of
\* tensor[site][bin][orbital] over exactly the sites a-1..b-1 and the
\* orbitals c-1..d-1, divided by the atom count of the data file (not by the
\* number of selected sites); for the full ranges that is the sum of the
\* whole tensor at the bin over the atom count.
C1_SumOverRanges ==
    (call.op = "_calc_pdos_sum" /\ RangesInside) =>
        /\ ret.exc = "none"
        /\ DOMAIN ret.value = 0..(BinCount(disk.d.DOSCAR) - 1)
        /\ \A i \in DOMAIN ret.value :
              LET total == PairSum(self.pdict.pdos, i,
                               ((ProjA - 1)..(ProjB - 1)) \X ((ProjC - 1)..(ProjD - 1)))
              IN  /\ ret.value[i] = Frac(total[1], total[2] * AtomCount(disk.d.DOSCAR))
                  /\ (ProjA = 1 /\ ProjB = SiteCount /\ ProjC = 1 /\ ProjD = OrbCount) =>
                        ret.value[i] =
                            FDiv(PairSum(self.pdict.pdos, i,
                                     (0..(SiteCount - 1)) \X (0..(OrbCount - 1))),
                                 Float(AtomCount(disk.d.DOSCAR)))

\* sites 2-3 of a file of three atoms and a proper orbital range: two sites
\* are selected and the divisor is 3
C1_Witness ==
    /\ call.op = "_calc_pdos_sum"
    /\ RangesInside
    /\ ProjA = 2 /\ ProjB = 3 /\ ProjC < ProjD
    /\ AtomCount(disk.d.DOSCAR) = 3
    /\ ret.exc = "none"
    /\ \E i \in DOMAIN ret.value : ret.value[i][2] = 3

\* C2: a site or orbital range with an endpoint outside [1, count] makes
\* _calc_pdos_sum fail with an index-out-of-range error.
C2_OutOfRangeRaises ==
    (/\ call.op = "_calc_pdos_sum"
     /\ \/ ProjA < 1 \/ ProjA > SiteCount \/ ProjB < 1 \/ ProjB > SiteCount
        \/ ProjC < 1 \/ ProjC > OrbCount \/ ProjD < 1 \/ ProjD > OrbCount)
    => ret.exc = "IndexError"

\* C4: after read_pdos the tensor has shape [N][B][orbital_count], cell
\* [s][b][o] is value column o+1 of the line at offset s*(B+1) + 1 + b of the
\* projected block, and the call wrote every cell exactly once.
C4_TensorLayout ==
    self.pdict # None =>
        LET f == disk.d.DOSCAR
            N == AtomCount(f)
            B == BinCount(f)
            O == OrbitalCount(f)
            pdos == self.pdict.pdos
        IN  /\ DOMAIN pdos = 0..(N - 1)
            /\ \A s \in 0..(N - 1) :
                  /\ DOMAIN pdos[s] = 0..(B - 1)
                  /\ \A b \in 0..(B - 1) :
                        /\ DOMAIN pdos[s][b] = 0..(O - 1)
                        /\ \A o \in 0..(O - 1) :
                              /\ pdos[s][b][o] =
                                    <<f[6 + B + s * (B + 1) + 1 + b][o + 1], 1>>
                              /\ call.op = "read_pdos" => ret.writes[s][b][o] = 1

C4_Witness ==
    /\ call.op = "read_pdos"
    /\ AtomCount(TheDoscar) >= 2
    /\ BinCount(TheDoscar) >= 2
    /\ OrbitalCount(TheDoscar) >= 2
    /\ self.pdict.pdos[1][1][1] # self.pdict.pdos[0][1][1]

\* C5: after read_tdos the energy grid has bin_count entries, energies[i] is
\* the raw energy of line 6+i minus the Fermi energy of line 5, and reading
\* the file again leaves the grid as it is.
C5_EnergyShift ==
    self.tdict # None =>
        LET f == disk.d.DOSCAR
        IN  /\ DOMAIN self.tdict.en = 0..(BinCount(f) - 1)
            /\ \A i \in DOMAIN self.tdict.en :
                  self.tdict.en[i] = <<f[6 + i][0] - f[5][3], 1>>

C5_Witness ==
    /\ call.op = "read_tdos"
    /\ BinCount(TheDoscar) >= 2
    /\ TheDoscar[5][3] > 0
    /\ self.tdict.en[1] # self.tdict.en[0]

\* C6 as claimed: the channel matrix has 1 column for non-spin data and 2
\* for spin-polarized data (4 value columns in a row), the two cumulative
\* columns dropped, each value the raw value over the atom count.
C6_TwoChannels ==
    self.tdict # None =>
        LET f == disk.d.DOSCAR
            channel_count == IF TotalColumns(f) = 4 THEN 2 ELSE 1
        IN  /\ DOMAIN self.tdict.tdos = 0..(BinCount(f) - 1)
            /\ \A i \in DOMAIN self.tdict.tdos :
                  /\ DOMAIN self.tdict.tdos[i] = 0..(channel_count - 1)
                  /\ \A c \in 0..(channel_count - 1) :
                        self.tdict.tdos[i][c] = Frac(f[6 + i][c + 1], AtomCount(f))

\* C6, amended: the channel matrix has one column per value column of a
\* total-DOS row; with 4 value columns the reader records spin-polarized, up
\* and down are columns 0 and 1 and the two cumulative columns are kept as
\* columns 2 and 3; each value is the raw value over the atom count.
C6_AllColumns ==
    self.tdict # None =>
        LET f == disk.d.DOSCAR
        IN  /\ DOMAIN self.tdict.tdos = 0..(BinCount(f) - 1)
            /\ TotalColumns(f) = 4 => self.spin
            /\ \A i \in DOMAIN self.tdict.tdos :
                  /\ DOMAIN self.tdict.tdos[i] = 0..(TotalColumns(f) - 1)
                  /\ \A c \in 0..(TotalColumns(f) - 1) :
                        self.tdict.tdos[i][c] = Frac(f[6 + i][c + 1], AtomCount(f))

C6_Witness ==
    /\ call.op = "read_tdos"
    /\ TotalColumns(TheDoscar) = 4
    /\ AtomCount(TheDoscar) >= 2
    /\ self.spin
    /\ PyLen(self.tdict.tdos[0]) = 4

-----------------------------------------------------------------------------
(* _set_axes_limits                                                        *)

\* the bins of the call's energy grid inside [-6.0, 6.0], both ends included
WindowBins == {i \in DOMAIN call.en : -60 <= call.en[i][1] /\ call.en[i][1] <= 60}

\* M: the largest value of the call's curve at a bin of the window
WindowMax ==
    CHOOSE m \in {call.dos[i] : i \in WindowBins} :
        \A i \in WindowBins : FLeq(call.dos[i], m)

\* C7: for a non-spin curve _set_axes_limits sets the x window to
\* [-6.0, 6.0], y_min to 0.0 and the top to 1.05 * min(5.0, M), M the largest
\* value at a bin whose energy lies in the window (0 when the window holds no
\* bin); bins outside the window do not count and the top is at most 5.25.
C7_AxisTop ==
    (call.op = "_set_axes_limits" /\ ~self.spin) =>
        /\ ax.xlim = [lo |-> <<-60, 1>>, hi |-> <<60, 1>>]
        /\ ax.ylim.lo = <<0, 1>>
        /\ FLeq(ax.ylim.hi, <<525, 10>>)
        /\ WindowBins = {} => ax.ylim.hi = <<0, 1>>
        /\ WindowBins # {} =>
              LET M == WindowMax
                  capped == IF FLess(<<50, 1>>, M) THEN <<50, 1>> ELSE M
              IN  ax.ylim.hi = Frac(105 * capped[1], 100 * capped[2])

\* a peak of 3.0 on the edge of the window and a value of 7.2 outside it:
\* the top is 3.15
C7_Witness ==
    /\ call.op = "_set_axes_limits"
    /\ ~self.spin
    /\ \E i \in DOMAIN call.en, j \in DOMAIN call.en :
          /\ call.en[i] = <<60, 1>> /\ call.dos[i] = <<30, 1>>
          /\ call.en[j] = <<61, 1>> /\ call.dos[j] = <<72, 1>>
    /\ ax.ylim.hi = <<63, 2>>

-----------------------------------------------------------------------------
(* The session.                                                            *)

\* the data of a directory is spin-polarized when its projected rows carry
\* 2, 8 or 18 value columns
SpinPolarized(dir) == OrbitalCount(dir.DOSCAR) \in {2, 8, 18}

\* C3: every call of plot_pdos on spin-polarized projected-DOS data ends by
\* raising ImplementationError.
C3_SpinAlwaysRaises ==
    (call.op = "plot_pdos" /\ SpinPolarized(disk[call.fdos])) =>
        ret.exc = "ImplementationError"

\* the names of the chemical elements that occur in the structure files
Symbols == {"Fe", "O", "Ni"}

NonSymbolic(pos) == \E k \in DOMAIN pos[5] : pos[5][k] \notin Symbols

\* C8: read_poscar on a structure file whose element line holds a token that
\* is no element symbol raises VaspFormatError and leaves elems and _natoms
\* as they were.  (_natoms is an integer exactly when elems is a table: the
\* two are assigned together.)
C8_FormatErrorRaised ==
    (call.op = "read_poscar" /\ NonSymbolic(disk[call.fdos].POSCAR)) =>
        /\ ret.exc = "VaspFormatError"
        /\ self.elems = call.before.elems
        /\ self.elems # None => self._natoms = call.before._natoms

\* C9: plot_pdos on non-spin input, total or not, from any state of the
\* DOSPlotter, never fails on a table that is still unset.
C9_TablesLoaded ==
    (call.op = "plot_pdos" /\ ~SpinPolarized(disk[call.fdos])) =>
        ret.exc # "TypeError"

\* what plot_pdos draws when every table it uses is read from the directory
\* the call names
FreshLines(dir, total, plotrange) ==
    LET s1 == ReadPdos(ReadTdos(InitSelf, dir.DOSCAR), dir.DOSCAR)
        s2 == ReadParams(ReadPoscar(s1, dir.POSCAR).self, dir.params)
    IN  Draw(s2, total, plotrange).ax.lines

\* C10: the curves of every plot_pdos call that returns are computed from the
\* tensor, total DOS, projection list and atom count of the file the call
\* names.
C10_CurvesOfNamedFile ==
    (call.op = "plot_pdos" /\ ret.exc = "none") =>
        ax.lines = FreshLines(disk[call.fdos], call.total, call.plotrange)

====
